---- MODULE Spec2Model ----
(***************************************************************************)
(* Model of src/app.py: the Streamlit mock-interview application.          *)
(*                                                                         *)
(* The session state (st.session_state) is the set of variables; every     *)
(* user action is one run of the script (router -> page function) and is   *)
(* one action of the model.  The chat endpoint is an input: every action   *)
(* that calls groq_chat draws the outcomes the endpoint would give to the  *)
(* successive attempts.  Texts are sequences of tokens; Python's None is   *)
(* the distinguished value None.  The variable `call` records the          *)
(* groq_chat call of the last action: the outcomes it was run against, the *)
(* log of its attempts and sleeps, and how it ended.                       *)
(***************************************************************************)
EXTENDS Integers, Sequences, FiniteSets, TLC

VARIABLES page, api_key, client, form, profile_md, history, show_eval,
          report_md, call

vars == <<page, api_key, client, form, profile_md, history, show_eval,
          report_md, call>>

(* ------------------------------ bounds -------------------------------- *)

\* Longest turn history explored.
MaxTurns == 5

(* ------------------------------ values -------------------------------- *)

\* Python's None; no text contains the token "None".
None == <<"None">>

\* The empty string.
EmptyStr == <<>>

\* Python truthiness of an optional text (None and "" are falsy).
Truthy(x) == x # None /\ x # EmptyStr

\* Whitespace token.
WS == " "

\* Texts the model endpoint may answer with.
RespFull == <<"EVALUATION:", WS, "e", WS, "QUESTION:", WS, "q">>
RespPlain == <<WS, "q", WS>>
RespNoEval == <<"EVALUATION:", WS, "QUESTION:", "q">>
Responses == {RespFull, RespPlain, RespNoEval}

\* Texts the candidate may type into the chat input ("" submits nothing).
Answers == {EmptyStr, <<"a">>}

(* ----------------------------- str methods ---------------------------- *)

RECURSIVE LStrip(_)
LStrip(s) == IF s # <<>> /\ Head(s) = WS THEN LStrip(Tail(s)) ELSE s

RECURSIVE RStrip(_)
RStrip(s) ==
    IF s # <<>> /\ s[Len(s)] = WS THEN RStrip(SubSeq(s, 1, Len(s) - 1)) ELSE s

\* str.strip()
Strip(s) == RStrip(LStrip(s))

\* str.replace(tok, "")
RECURSIVE RemoveTok(_, _)
RemoveTok(s, tok) ==
    IF s = <<>> THEN <<>>
    ELSE IF Head(s) = tok THEN RemoveTok(Tail(s), tok)
         ELSE <<Head(s)>> \o RemoveTok(Tail(s), tok)

\* Index of the first occurrence of tok in s, 0 when absent.
RECURSIVE FindTok(_, _, _)
FindTok(s, tok, i) ==
    IF i > Len(s) THEN 0
    ELSE IF s[i] = tok THEN i ELSE FindTok(s, tok, i + 1)

\* resp.split("QUESTION:", 1) and the two assignments of the try block;
\* the ValueError branch when the label is absent.
ParseResponse(resp) ==
    LET k == FindTok(resp, "QUESTION:", 1) IN
    IF k = 0
    THEN [eval |-> EmptyStr, question |-> resp]
    ELSE [eval |-> Strip(RemoveTok(SubSeq(resp, 1, k - 1), "EVALUATION:")),
          question |-> Strip(SubSeq(resp, k + 1, Len(resp)))]

(* ----------------------------- chat endpoint -------------------------- *)

\* API keys a user may hold: none, one the service accepts, one it rejects.
NoKey == ""
Keys == {"good", "bad"}

\* Whether the service accepts the key (decided by the service, observed by
\* the validation call of get_client).
KeyValid(key) == key = "good"

\* Status codes of the GroqError an attempt may end with (400 stands for the
\* non-transient classes).
ErrorStatuses == {429, 500, 503, 400}

\* What the endpoint gives to one completion request.
EndpointOutcomes ==
    {[ok |-> TRUE, status |-> 200, text |-> t] : t \in Responses}
    \cup {[ok |-> FALSE, status |-> s, text |-> EmptyStr] : s \in ErrorStatuses}

\* range(3) of the retry loop.
Attempts == 3

\* What the endpoint would give to each attempt of one groq_chat call: every
\* combination, used where the chat client is examined on its own.
OutcomeSeqs == [1..Attempts -> EndpointOutcomes]

\* An outage of the endpoint: the first k requests fail with status e, the
\* later ones are answered with t.
Outage(k, e, t) ==
    [i \in 1..Attempts |->
        IF i <= k THEN [ok |-> FALSE, status |-> e, text |-> EmptyStr]
        ELSE [ok |-> TRUE, status |-> 200, text |-> t]]

\* The endpoint behaviours the session actions are run against: a transient
\* outage that ends before the attempts do (every length, every answer), a
\* transient outage that outlasts them, and a non-transient failure.
SessionSeqs ==
    {Outage(k, 429, t) : k \in 0..(Attempts - 1), t \in Responses}
    \cup {Outage(Attempts, 429, RespPlain), Outage(1, 400, RespPlain)}

\* Whether the service answers the validation ping: only drawn when a ping
\* is sent, that is when no handle is cached.
PingInputs(cl) == IF cl THEN {TRUE} ELSE BOOLEAN

(* ------------------------------ get_client ---------------------------- *)

\* Variant: a validated handle is returned but not stored in the session.
get_clientNoCache(cl, key, svc) ==
    IF cl THEN [kind |-> "ok", client |-> TRUE, pinged |-> FALSE]
    ELSE IF key = NoKey THEN [kind |-> "rerun", client |-> FALSE, pinged |-> FALSE]
    ELSE IF KeyValid(key) /\ svc THEN [kind |-> "ok", client |-> FALSE, pinged |-> TRUE]
    ELSE [kind |-> "stop", client |-> FALSE, pinged |-> TRUE]

\* get_client(): the cached handle is reused; without a key the page is set
\* to "apikey" and the script reruns; otherwise a handle is built and
\* validated with a one-token "ping", cached on success, and on a GroqError
\* the script stops (st.stop()).  svc tells whether the service answers the
\* ping of an accepted key.
get_client(cl, key, svc) ==
    IF cl THEN [kind |-> "ok", client |-> TRUE, pinged |-> FALSE]
    ELSE IF key = NoKey THEN [kind |-> "rerun", client |-> FALSE, pinged |-> FALSE]
    ELSE IF KeyValid(key) /\ svc THEN [kind |-> "ok", client |-> TRUE, pinged |-> TRUE]
    ELSE [kind |-> "stop", client |-> FALSE, pinged |-> TRUE]

(* ------------------------------- groq_chat ---------------------------- *)

\* Variant: every error status is taken for transient.
IsTransientAnyError(status) == status >= 400

\* e.status_code in (429, 500, 503)
IsTransient(status) == status \in {429, 500, 503}

\* Variant: a linear instead of an exponential delay.
BackoffLinear(attempt) == 2 * attempt

\* time.sleep(2 ** attempt)
Backoff(attempt) == 2 ^ attempt

\* Log entries of one groq_chat call.
AttemptEv(attempt, o) ==
    [ev |-> "attempt", attempt |-> attempt, status |-> o.status, secs |-> 0]
SleepEv(attempt, secs) ==
    [ev |-> "sleep", attempt |-> attempt, status |-> 0, secs |-> secs]

\* The function body after the for loop: there is none, so the call falls
\* off the end and returns None.
LoopExhausted(log) ==
    [kind |-> "return", value |-> None, err |-> 0, log |-> log]

\* Variant: the except clause sleeps and goes on whatever the status.
RetriesAlways(status, attempt) == TRUE

\* except GroqError as e: sleep on a transient status, else re-raise.
\* TRUE when the loop goes on to the next iteration.
Retries(status, attempt) == IsTransient(status)

\* The for loop of groq_chat from iteration `attempt` on.
RECURSIVE GroqLoop(_, _, _)
GroqLoop(attempt, outcomes, log) ==
    IF attempt >= Attempts THEN LoopExhausted(log)
    ELSE LET o == outcomes[attempt + 1]
             log1 == Append(log, AttemptEv(attempt, o))
         IN IF o.ok
            THEN [kind |-> "return", value |-> o.text, err |-> 0, log |-> log1]
            ELSE IF Retries(o.status, attempt)
                 THEN GroqLoop(attempt + 1, outcomes,
                               Append(log1, SleepEv(attempt, Backoff(attempt))))
                 ELSE [kind |-> "raise", value |-> None, err |-> o.status,
                       log |-> log1]

\* groq_chat(msgs, temperature) called for operation op.  kind is "return"
\* (value is the text, or None), "raise" (err is the status of the GroqError
\* that propagates), "stop" (st.stop() in get_client) or "rerun" (st.rerun()
\* in get_client); in these two cases no request reaches the endpoint and
\* outcomes is recorded as empty.  msgs is what the caller asks for.
groq_chat(op, msgs, cl, key, svc, outcomes) ==
    LET g == get_client(cl, key, svc)
        r == GroqLoop(0, outcomes, <<>>)
    IN IF g.kind # "ok"
       THEN [op |-> op, kind |-> g.kind, value |-> None, err |-> 0,
             log |-> <<>>, client |-> g.client, pinged |-> g.pinged,
             outcomes |-> <<>>, msgs |-> msgs]
       ELSE [op |-> op, kind |-> r.kind, value |-> r.value, err |-> r.err,
             log |-> r.log, client |-> g.client, pinged |-> g.pinged,
             outcomes |-> outcomes, msgs |-> msgs]

\* The value of `call` after an action that calls nothing.
NoCall ==
    [op |-> "none", kind |-> "none", value |-> None, err |-> 0,
     log |-> <<>>, client |-> FALSE, pinged |-> FALSE, outcomes |-> <<>>,
     msgs |-> <<>>]

\* The call returned a text (it did not raise, stop, rerun or return None).
Returned(r) == r.kind = "return" /\ r.value # None

(* ------------------------------ templates ----------------------------- *)

\* The options of the "Interview round" selectbox.
Rounds == {"Technical", "Behavioral", "HR / Cultural Fit", "Case Study"}

\* PRELOADED_TEMPLATES.  Of a form the model keeps the two fields the code
\* branches on, round and tech_stack; the other five are texts copied along
\* with them.
TemplateNames ==
    {"Full-Stack Developer", "Machine-Learning Engineer", "DevOps Engineer",
     "Product Manager"}

PRELOADED_TEMPLATES(name) ==
    CASE name = "Full-Stack Developer" ->
            [round |-> "Technical", tech_stack |-> <<"Python,TypeScript,React">>]
      [] name = "Machine-Learning Engineer" ->
            [round |-> "Technical", tech_stack |-> <<"Python,PyTorch">>]
      [] name = "DevOps Engineer" ->
            [round |-> "Technical", tech_stack |-> <<"AWS,Terraform">>]
      [] name = "Product Manager" ->
            [round |-> "Behavioral", tech_stack |-> EmptyStr]

\* What the user may enter in the setup form.
FormInputs == [round : Rounds, tech_stack : {EmptyStr, <<"Rust">>}]

\* The setup form's handling of tech_stack: kept for a Technical round,
\* cleared otherwise.
\* Variant: the form keeps the tech stack whatever the round.
SetupFieldsKeep(f) == f

SetupFields(f) ==
    IF f.round = "Technical" THEN f ELSE [f EXCEPT !.tech_stack = EmptyStr]

(* ------------------------------- prompts ------------------------------ *)

\* One line of a prompt: what it is about and the text put there.
Line(label, value) == [label |-> label, value |-> value]

\* The system and the user message of a request.
Msgs(system, prompt) ==
    <<Line("system", <<system>>), Line("user", prompt)>>

\* tech_block of generate_profile: the "Tech Stack:" line when the form's
\* tech_stack is non-empty, else nothing.
TechBlock(f) ==
    IF Truthy(f.tech_stack) THEN <<Line("Tech Stack:", f.tech_stack)>>
    ELSE <<>>

\* generate_profile(form): the messages it sends.  Of the form's lines the
\* prompt keeps the round and the tech block.
ProfileMsgs(f) ==
    Msgs("You are an expert interview assistant",
         <<Line("instruction", <<"Produce a concise markdown profile">>),
           Line("Interview round:", <<f.round>>)>> \o TechBlock(f))

\* The greeting prompt of page_interview.
GreetMsgs(profile) ==
    Msgs("You are an interviewer.",
         <<Line("profile", profile),
           Line("instruction", <<"Start the mock interview">>)>>)

\* f"{m['role']}: {m['content']}" for every turn.
Convo(h) == [i \in 1..Len(h) |-> Line(h[i].role, h[i].content)]

\* The follow-up prompt of page_interview; h holds the new candidate turn.
FollowMsgs(profile, h) ==
    Msgs("You are an interviewer.",
         <<Line("profile", profile),
           Line("instruction", <<"Continue the interview.">>),
           Line("format", <<"EVALUATION:", "QUESTION:">>)>> \o Convo(h))

\* The conversation of generate_report: the evaluation of a turn is added
\* when it has one.
ReportConvo(h) ==
    [i \in 1..Len(h) |->
        Line(h[i].role,
             h[i].content \o (IF Truthy(h[i].eval)
                              THEN <<"[Eval:">> \o h[i].eval \o <<"]">>
                              ELSE <<>>))]

\* generate_report(): the messages it sends.
ReportMsgs(profile, h) ==
    Msgs("You are an expert interview evaluator",
         <<Line("instruction", <<"Write a detailed markdown report">>),
           Line("profile", profile)>> \o ReportConvo(h))

(* -------------------------------- turns ------------------------------- *)

\* {"role": ..., "content": ..., "eval": None}
Turn(role, content) == [role |-> role, content |-> content, eval |-> None]

\* The greeting block of page_interview on an empty history: the stripped
\* text is appended as an interviewer turn; a raised error, a stop, or
\* None.strip() (AttributeError) leaves the history empty.
Greet(h, r) ==
    IF Returned(r) THEN Append(h, Turn("interviewer", Strip(r.value))) ELSE h

\* Variant: the chat input is handled before the greeting block.
ChatInputAlways(h) == TRUE

\* The chat input is rendered by a run that got past the greeting block.
ChatInputRendered(h) == h # <<>>

\* Variant: the candidate turn is stored over the last turn.
AppendAnswerOverwrite(h, user_txt) ==
    [h EXCEPT ![Len(h)] = Turn("candidate", user_txt)]

\* st.session_state.history.append({"role": "candidate", ...}), executed
\* before the completion call.
AppendAnswer(h, user_txt) == Append(h, Turn("candidate", user_txt))

\* Python's history[-2] as a 1-based index.
EvalIndex(h) == Len(h) - 1

\* The statements after the completion call of the answer block: parse the
\* stripped response, store the evaluation at history[-2], append the
\* interviewer turn.  h is the history with the candidate turn appended.
CommitFollowUp(h, value) ==
    LET p == ParseResponse(Strip(value))
        i == EvalIndex(h)
    IN IF i < 1 THEN h   \* IndexError
       ELSE Append([h EXCEPT ![i].eval = p.eval],
                   Turn("interviewer", p.question))

\* The answer block of page_interview for a non-empty user_txt, given the
\* result r of its completion call.
AnswerBlock(h, user_txt, r) ==
    LET h1 == AppendAnswer(h, user_txt)
    IN IF Returned(r) THEN CommitFollowUp(h1, r.value) ELSE h1

\* The report block: report_md is assigned what generate_report returns
\* (possibly None); an error leaves it as it was.
ReportBlock(rep, r) == IF r.kind = "return" THEN r.value ELSE rep

\* Variant: the report is also appended to the history as a turn.
ReportHistoryAppend(h, r) ==
    IF Returned(r) THEN Append(h, Turn("interviewer", r.value)) ELSE h

\* What the report block does to the history: nothing.
ReportHistory(h, r) == h

\* Variant: the report button is shown whatever the history holds.
ReportButtonAlways(h) == TRUE

\* len(st.session_state.history) >= 4, the condition under which the
\* "Generate interview report" button exists.
ReportButtonRendered(h) == Len(h) >= 4

\* Variant: any failure of the call sends the session to the key page.
PageAfterErrorToKey(pg, target, r) ==
    IF r.kind = "return" THEN target ELSE "apikey"

\* page after an action whose completion call gave r and which moves to
\* `target` on return: get_client's missing-key branch sets "apikey".
PageAfter(pg, target, r) ==
    IF r.kind = "rerun" THEN "apikey"
    ELSE IF r.kind = "return" THEN target ELSE pg

(* -------------------------------- Init -------------------------------- *)

\* init_session(): the page depends on whether GROQ_API_KEY is set.
Init ==
    /\ api_key \in Keys \cup {NoKey}
    /\ page = IF api_key = NoKey THEN "apikey" ELSE "landing"
    /\ client = FALSE
    /\ form = [round |-> "Technical", tech_stack |-> EmptyStr]
    /\ profile_md = EmptyStr
    /\ history = <<>>
    /\ show_eval = TRUE
    /\ report_md = EmptyStr
    /\ call = NoCall

(* ------------------------------- actions ------------------------------ *)

\* page_apikey: "Save & continue" with the text input holding key.
SaveKey(key) ==
    /\ page = "apikey"
    /\ api_key' = IF key # NoKey THEN key ELSE api_key
    /\ page' = IF key # NoKey THEN "landing" ELSE page
    /\ call' = NoCall
    /\ UNCHANGED <<client, form, profile_md, history, show_eval, report_md>>

\* page_landing: a template button.
ChooseTemplate(name, outcomes) ==
    /\ page = "landing"
    /\ \E svc \in PingInputs(client) :
        LET tpl == PRELOADED_TEMPLATES(name)
            r == groq_chat("profile", ProfileMsgs(tpl), client, api_key, svc,
                           outcomes)
        IN /\ form' = tpl
           /\ profile_md' = IF r.kind = "return" THEN r.value ELSE profile_md
           /\ page' = PageAfter(page, "profile", r)
           /\ client' = r.client
           /\ call' = r
    /\ UNCHANGED <<api_key, history, show_eval, report_md>>

\* page_landing: "Custom setup".
CustomSetup ==
    /\ page = "landing"
    /\ page' = "setup"
    /\ call' = NoCall
    /\ UNCHANGED <<api_key, client, form, profile_md, history, show_eval,
                   report_md>>

\* page_setup: choosing an entry of "Load a template".
LoadTemplate(name) ==
    /\ page = "setup"
    /\ form' = SetupFields(PRELOADED_TEMPLATES(name))
    /\ call' = NoCall
    /\ UNCHANGED <<page, api_key, client, profile_md, history, show_eval,
                   report_md>>

\* page_setup: "Generate interviewer profile" with the form holding f and
\* the checkbox holding se.
SubmitSetup(f, se, outcomes) ==
    /\ page = "setup"
    /\ \E svc \in PingInputs(client) :
        LET f1 == SetupFields(f)
            r == groq_chat("profile", ProfileMsgs(f1), client, api_key, svc,
                           outcomes)
        IN /\ form' = f1
           /\ show_eval' = se
           /\ profile_md' = IF r.kind = "return" THEN r.value ELSE profile_md
           /\ page' = PageAfter(page, "profile", r)
           /\ client' = r.client
           /\ call' = r
    /\ UNCHANGED <<api_key, history, report_md>>

\* page_profile: "Start interview", and the run of page_interview that
\* st.rerun() starts, which greets on the empty history.
StartInterview(outcomes) ==
    /\ page = "profile"
    /\ \E svc \in PingInputs(client) :
        LET r == groq_chat("greeting", GreetMsgs(profile_md), client, api_key,
                           svc, outcomes)
        IN /\ history' = Greet(<<>>, r)
           /\ report_md' = EmptyStr
           /\ page' = IF r.kind = "rerun" THEN "apikey" ELSE "interview"
           /\ client' = r.client
           /\ call' = r
    /\ UNCHANGED <<api_key, form, profile_md, show_eval>>

\* page_profile: "Edit setup".
EditSetup ==
    /\ page = "profile"
    /\ page' = "setup"
    /\ call' = NoCall
    /\ UNCHANGED <<api_key, client, form, profile_md, history, show_eval,
                   report_md>>

\* page_interview run again with no input while the history is still empty
\* (the greeting failed before): the greeting block runs again.  With a
\* non-empty history such a run only renders.
RerunInterview(outcomes) ==
    /\ page = "interview"
    /\ history = <<>>
    /\ \E svc \in PingInputs(client) :
        LET r == groq_chat("greeting", GreetMsgs(profile_md), client, api_key,
                           svc, outcomes)
        IN /\ history' = Greet(history, r)
           /\ page' = IF r.kind = "rerun" THEN "apikey" ELSE page
           /\ client' = r.client
           /\ call' = r
    /\ UNCHANGED <<api_key, form, profile_md, show_eval, report_md>>

\* page_interview: the chat input submits user_txt.
SubmitAnswer(user_txt, outcomes) ==
    /\ page = "interview"
    /\ ChatInputRendered(history)
    /\ Len(history) + 2 <= MaxTurns
    /\ \E svc \in PingInputs(client) :
        LET r == IF Truthy(user_txt)
                 THEN groq_chat("answer",
                                FollowMsgs(profile_md,
                                           AppendAnswer(history, user_txt)),
                                client, api_key, svc, outcomes)
                 ELSE NoCall
        IN /\ history' = IF Truthy(user_txt)
                         THEN AnswerBlock(history, user_txt, r)
                         ELSE history
           /\ page' = IF r.kind = "rerun" THEN "apikey" ELSE page
           /\ client' = IF Truthy(user_txt) THEN r.client ELSE client
           /\ call' = r
    /\ UNCHANGED <<api_key, form, profile_md, show_eval, report_md>>

\* page_interview: "Generate interview report".
GenerateReport(outcomes) ==
    /\ page = "interview"
    /\ ReportButtonRendered(history)
    /\ \E svc \in PingInputs(client) :
        LET r == groq_chat("report", ReportMsgs(profile_md, history), client,
                           api_key, svc, outcomes)
        IN /\ report_md' = ReportBlock(report_md, r)
           /\ history' = ReportHistory(history, r)
           /\ page' = IF r.kind = "rerun" THEN "apikey" ELSE page
           /\ client' = r.client
           /\ call' = r
    /\ UNCHANGED <<api_key, form, profile_md, show_eval>>

Next ==
    \/ \E key \in Keys \cup {NoKey} : SaveKey(key)
    \/ \E name \in TemplateNames, outcomes \in SessionSeqs :
          ChooseTemplate(name, outcomes)
    \/ CustomSetup
    \/ \E name \in TemplateNames : LoadTemplate(name)
    \/ \E f \in FormInputs, se \in BOOLEAN,
          outcomes \in SessionSeqs : SubmitSetup(f, se, outcomes)
    \/ \E outcomes \in SessionSeqs :
          StartInterview(outcomes)
    \/ EditSetup
    \/ \E outcomes \in SessionSeqs :
          RerunInterview(outcomes)
    \/ \E user_txt \in Answers, outcomes \in SessionSeqs :
          SubmitAnswer(user_txt, outcomes)
    \/ \E outcomes \in SessionSeqs :
          GenerateReport(outcomes)

Spec == Init /\ [][Next]_vars

(* --------------------- the chat client on its own --------------------- *)

\* One call of groq_chat against an arbitrary endpoint, outside any page.
Complete(svc, outcomes) ==
    /\ LET r == groq_chat("chat", GreetMsgs(profile_md), client, api_key,
                          svc, outcomes)
       IN /\ call' = r
          /\ client' = r.client
          /\ page' = IF r.kind = "rerun" THEN "apikey" ELSE page
    /\ UNCHANGED <<api_key, form, profile_md, history, show_eval, report_md>>

NextChat ==
    \/ \E key \in Keys \cup {NoKey} : SaveKey(key)
    \/ \E svc \in BOOLEAN, outcomes \in OutcomeSeqs : Complete(svc, outcomes)

SpecChat == Init /\ [][NextChat]_vars

(* ============================== claims ================================ *)

\* The attempts of a call's log, in order.
AttemptsOf(log) == SelectSeq(log, LAMBDA e : e.ev = "attempt")

\* The lengths of the sleeps of a call's log, in order.
WaitsOf(log) ==
    LET sl == SelectSeq(log, LAMBDA e : e.ev = "sleep")
    IN [i \in 1..Len(sl) |-> sl[i].secs]

\* The call got past get_client, so its retry loop ran.
LoopRan(c) == c.kind \in {"return", "raise"}

\* Outcome o is a failure with one of the statuses 429, 500, 503.
TransientFailure(o) == ~o.ok /\ o.status \in {429, 500, 503}

\* Outcome o is a failure with any other status.
OtherFailure(o) == ~o.ok /\ o.status \notin {429, 500, 503}

\* The completion call of the last action failed: a non-transient error was
\* raised, or every attempt failed with a transient error.
CallFailed(c) ==
    /\ LoopRan(c)
    /\ \/ c.kind = "raise"
       \/ \A i \in 1..Len(c.outcomes) : TransientFailure(c.outcomes[i])

\* C1: a failed completion call of submit-candidate-answer leaves the turn
\* sequence as it was before the action (no candidate turn stays appended).
C1_FailedAnswerKeepsHistory ==
    [][(call'.op = "answer" /\ CallFailed(call')) => history' = history]_vars

\* C2: no interviewer turn ever carries an evaluation, and after a processed
\* answer the evaluation sits on the candidate turn that was just answered.
C2_EvalOnlyOnCandidateTurns ==
    /\ \A i \in 1..Len(history) :
          history[i].role = "interviewer" => ~Truthy(history[i].eval)
    /\ (call.op = "answer" /\ Returned(call)) =>
          /\ Len(history) >= 2
          /\ history[Len(history) - 1].role = "candidate"
          /\ history[Len(history) - 1].eval
                = ParseResponse(Strip(call.value)).eval

\* C3: from the greeting alone, one processed answer whose response has both
\* labels and a non-empty evaluation gives three turns (interviewer,
\* candidate, interviewer) with a non-empty evaluation on turn[1].
C3_FirstAnswerScenario ==
    [][(/\ Len(history) = 1
        /\ history[1].role = "interviewer"
        /\ call'.op = "answer"
        /\ Returned(call')
        /\ FindTok(call'.value, "QUESTION:", 1) > 0
        /\ ParseResponse(Strip(call'.value)).eval # EmptyStr)
       => (/\ Len(history') = 3
           /\ history'[1].role = "interviewer"
           /\ history'[2].role = "candidate"
           /\ history'[3].role = "interviewer"
           /\ Truthy(history'[2].eval))]_vars

\* C4: when every attempt fails with a transient error, the call ends by
\* raising the last of these errors; it does not return.
C4_ExhaustionRaisesLastError ==
    (/\ LoopRan(call)
     /\ \A i \in 1..Len(call.outcomes) : TransientFailure(call.outcomes[i]))
    => (/\ call.kind = "raise"
        /\ call.err = call.outcomes[Len(call.outcomes)].status)

\* C5: one call makes at most 3 attempts, and each attempt after the first
\* follows a failure of the previous one with status 429, 500 or 503.
C5_AtMostThreeAttempts ==
    LoopRan(call) =>
        LET a == AttemptsOf(call.log)
        IN /\ Len(a) >= 1
           /\ Len(a) <= 3
           /\ \A i \in 1..Len(a) : a[i].status = call.outcomes[i].status
           /\ \A i \in 2..Len(a) : a[i - 1].status \in {429, 500, 503}

\* Witness of C5: a call that made three attempts.
C5_Witness == LoopRan(call) /\ Len(AttemptsOf(call.log)) = 3

\* The endpoint fails transiently on the first two attempts and answers the
\* third.
FailsTwiceThenSucceeds(c) ==
    /\ LoopRan(c)
    /\ TransientFailure(c.outcomes[1])
    /\ TransientFailure(c.outcomes[2])
    /\ c.outcomes[3].ok

\* C6: against an endpoint that fails transiently twice and then succeeds,
\* the call returns the third attempt's text after exactly two sleeps, of 1
\* and then 2 time units, each between two attempts.
C6_TwoFailuresThenSuccess ==
    FailsTwiceThenSucceeds(call) =>
        /\ call.kind = "return"
        /\ call.value = call.outcomes[3].text
        /\ WaitsOf(call.log) = <<1, 2>>
        /\ [i \in 1..Len(call.log) |-> call.log[i].ev]
              = <<"attempt", "sleep", "attempt", "sleep", "attempt">>

\* Witness of C6: such a call has returned.
C6_Witness == FailsTwiceThenSucceeds(call) /\ call.kind = "return"

\* The endpoint fails transiently on the attempts before the k-th and with
\* a non-transient status on the k-th.
NonTransientAt(c, k) ==
    /\ LoopRan(c)
    /\ \A i \in 1..(k - 1) : TransientFailure(c.outcomes[i])
    /\ OtherFailure(c.outcomes[k])

\* C7: a non-transient failure, at whichever attempt, ends the call at once:
\* that error is raised, no sleep follows it, no attempt follows it; at the
\* first attempt there is no sleep at all.
C7_NonTransientAbortsAtOnce ==
    \A k \in 1..3 :
        NonTransientAt(call, k) =>
            /\ call.kind = "raise"
            /\ call.err = call.outcomes[k].status
            /\ Len(AttemptsOf(call.log)) = k
            /\ call.log[Len(call.log)].ev = "attempt"
            /\ Len(WaitsOf(call.log)) = k - 1
            /\ (k = 1 => WaitsOf(call.log) = <<>>)

\* Witness of C7: a non-transient failure at the second attempt was raised.
C7_Witness == NonTransientAt(call, 2) /\ call.kind = "raise"

\* C8: every sleep follows the failed attempt k with length 2^k and is
\* followed by another attempt, so n attempts come with n-1 sleeps.
C8_SleepsOnlyBetweenAttempts ==
    LoopRan(call) =>
        LET log == call.log
        IN /\ \A j \in 1..Len(log) :
                 log[j].ev = "sleep" =>
                    /\ j > 1
                    /\ log[j - 1].ev = "attempt"
                    /\ log[j].secs = 2 ^ log[j - 1].attempt
                    /\ j < Len(log)
                    /\ log[j + 1].ev = "attempt"
           /\ Len(WaitsOf(log)) = Len(AttemptsOf(log)) - 1

\* C9: the first turn is always an interviewer turn, and the first turn put
\* on an empty history is the greeting alone, never a candidate turn (a
\* failed greeting leaves the history empty).
C9_GreetingComesFirst ==
    [][/\ (history' # <<>> => history'[1].role = "interviewer")
       /\ ((history = <<>> /\ history' # <<>>) =>
              /\ Len(history') = 1
              /\ call'.op = "greeting"
              /\ Returned(call'))
       /\ (\A i \in 1..Len(history') :
              (i > Len(history) /\ history'[i].role = "candidate")
                 => history # <<>>)]_vars

\* Witness of C9: a candidate turn was appended after the greeting.
C9_Witness ==
    /\ Len(history) >= 2
    /\ history[1].role = "interviewer"
    /\ history[2].role = "candidate"

\* C10: report generation, successful or not, changes neither the turn
\* sequence nor the stage, the config or the profile.
C10_ReportKeepsSession ==
    [][call'.op = "report" =>
          /\ history' = history
          /\ page' = page
          /\ form' = form
          /\ profile_md' = profile_md]_vars

\* Witness of C10: a report was generated and stored.
C10_Witness ==
    /\ call.op = "report"
    /\ Returned(call)
    /\ report_md = call.value
    /\ Len(history) >= 4

\* C11: a non-empty report exists only on the interview page with at least
\* 4 turns; on every other page, and with fewer turns, the report is empty.
C11_ReportOnlyInInterview ==
    Truthy(report_md) => (page = "interview" /\ Len(history) >= 4)

\* Witness of C11: a report text is stored.
C11_Witness ==
    /\ Truthy(report_md)
    /\ call.op = "report"
    /\ page = "interview"

\* C12: a failed completion call of a profile-generating action (template
\* button, setup submit) leaves page, form and profile as they were.
C12_FailedProfileKeepsSession ==
    [][(call'.op = "profile" /\ CallFailed(call')) =>
          /\ page' = page
          /\ form' = form
          /\ profile_md' = profile_md]_vars

\* C13: the page leaves "apikey" only with a key the service accepts, so
\* that beyond the key page the stored key is never empty or rejected.
C13_ValidKeyBeyondKeyPage ==
    [][(page = "apikey" /\ page' # "apikey") =>
          (api_key' # NoKey /\ KeyValid(api_key'))]_vars

\* The stored key is one the service rejects.
InvalidKey == api_key # NoKey /\ ~KeyValid(api_key)

\* C14: when the validation of get_client fails on an invalid stored key,
\* the session goes back to the key page, where the key can be re-entered.
C14_CredentialErrorRoutesBack ==
    [][(InvalidKey /\ call'.kind = "stop") => page' = "apikey"]_vars

\* With C14: once past the key page with an invalid key, no action brings
\* the key page back or changes the key, so no state with a re-entered key
\* can be reached from there.
C14_InvalidKeyIsNeverReplaced ==
    [][(InvalidKey /\ page # "apikey") =>
          (page' # "apikey" /\ api_key' = api_key)]_vars

\* C15: the handle is validated successfully at most once (only while none
\* is cached, and it is then cached for good), a cached handle is used
\* without a new validation, attempts are made only on a handle that was
\* cached before or validated by this call, and a failed validation makes no
\* attempt and caches nothing.
C15_ValidatedOnceBeforeUse ==
    [][/\ (client => client')
       /\ ((call'.pinged /\ call'.kind # "stop") => (~client /\ client'))
       /\ ((client /\ call'.op # "none") => ~call'.pinged)
       /\ (call'.log # <<>> => ((client \/ call'.pinged) /\ client'))
       /\ (call'.kind = "stop" =>
              (call'.pinged /\ call'.log = <<>> /\ ~client /\ ~client'))]_vars

\* Witness of C15: a call made its attempts on the cached handle, without a
\* validation.
C15_Witness ==
    /\ client
    /\ call.log # <<>>
    /\ ~call.pinged

\* The stage edges of the specification, by page name.
StageEdges ==
    {<<"apikey", "landing">>, <<"landing", "profile">>,
     <<"landing", "setup">>, <<"setup", "profile">>,
     <<"profile", "interview">>, <<"profile", "setup">>,
     <<"interview", "interview">>}

\* C16: the page changes only along the specified edges; the interview
\* page is never left and no step leads back to the key or landing page.
C16_StageEdgesOnly ==
    [][/\ (page' # page => <<page, page'>> \in StageEdges)
       /\ (page = "interview" => page' = "interview")
       /\ (page' = "apikey" => page = "apikey")
       /\ (page' = "landing" => page \in {"apikey", "landing"})]_vars

\* Witness of C16: the session went all the way to the interview page and an
\* answer was processed there.
C16_Witness ==
    /\ page = "interview"
    /\ call.op = "answer"
    /\ Len(history) >= 3

\* C17: on the interview page the turn sequence only grows at its end: its
\* length never decreases and no existing turn changes speaker or text.
C17_HistoryAppendOnly ==
    [][(page = "interview" /\ page' = "interview") =>
          /\ Len(history') >= Len(history)
          /\ \A i \in 1..Len(history) :
                /\ history'[i].role = history[i].role
                /\ history'[i].content = history[i].content]_vars

\* Witness of C17: answers, one of them failed, were added to the greeting.
C17_Witness ==
    /\ page = "interview"
    /\ Len(history) >= 4
    /\ history[2].role = "candidate"
    /\ history[3].role = "candidate"

\* The user message of a request and the values of its lines with a label.
PromptOf(c) == c.msgs[2].value
LinesOf(prompt, label) ==
    {i \in 1..Len(prompt) : prompt[i].label = label}

\* C18: a profile prompt whose round is not Technical has no tech-stack
\* line, whatever stack the setup form held or the user entered.
C18_NoTechLineUnlessTechnical ==
    call.op = "profile" =>
        ((\A i \in LinesOf(PromptOf(call), "Interview round:") :
              PromptOf(call)[i].value # <<"Technical">>)
         => LinesOf(PromptOf(call), "Tech Stack:") = {})

\* Witness of C18: a profile prompt for a non-Technical round was sent.
C18_Witness ==
    /\ call.op = "profile"
    /\ LoopRan(call)
    /\ form.round # "Technical"
    /\ LinesOf(PromptOf(call), "Interview round:") # {}

\* C19: the turn sequence alternates speakers starting with the interviewer,
\* and between user actions a non-empty sequence ends with an interviewer
\* turn, also after a failed answer and a retried one.
C19_StrictAlternation ==
    /\ \A i \in 1..Len(history) :
          history[i].role = IF i % 2 = 1 THEN "interviewer" ELSE "candidate"
    /\ (history # <<>> => history[Len(history)].role = "interviewer")

\* C20: on the profile and the interview page the profile is a text that a
\* completion call returned; it is never empty or absent there, also when
\* every attempt of the profile call failed transiently.
C20_ProfileIsReturnedText ==
    page \in {"profile", "interview"} => profile_md \in Responses

====
